---- MODULE Spec2Model ----
(***************************************************************************)
(* State-machine model of python-service/app.py: the numeric /train        *)
(* orchestrator, the classifier /train path, /train-dataset, /predict,     *)
(* /predict_hf, /classify-log and the start-up block, as run by Flask's    *)
(* threaded development server (one thread per request, shared module      *)
(* globals).  One action is one statement group of a handler; globals are  *)
(* references into a heap of objects so that in-place mutation             *)
(* (feature_max[...] = 1, model.fit) is visible through every reference.   *)
(***************************************************************************)
EXTENDS Integers, Sequences, FiniteSets, TLC

\* ------------------------------------------------------------------ bounds
NumThreads == 2      \* request threads served at once
MaxRuns == 2         \* training calls (of any kind) in one behaviour
MaxLogs == 2         \* records in one request

Threads == 1..NumThreads
RunIds == 1..MaxRuns

\* Python None for a reference; live object ids are the run ids.
None == 0

\* ------------------------------------------------------- records and inputs
\* A log record as the handlers read it: level and source are strings
\* ("absent" = key missing), message is its length, or -1 for JSON null.
Rec(l, s, m) == [level |-> l, source |-> s, message |-> m]

RecQuiet == Rec("INFO", "api-gateway", 0)
RecError == Rec("ERROR", "db-replicator", 4)
RecNullMsg == Rec("INFO", "absent", -1)

Records == {RecQuiet, RecError, RecNullMsg}

SeqsUpTo(S, n) == UNION {[1..k -> S] : k \in 0..n}

\* request.json['logs']: key absent, JSON null, or a list of records.
LogsArgs ==
    {[kind |-> "absent", recs |-> <<>>], [kind |-> "null", recs |-> <<>>]}
    \cup {[kind |-> "list", recs |-> s] : s \in SeqsUpTo(Records, MaxLogs)}

\* data.get('logs', [])
GetLogs(arg) == arg.recs
LogsIsNone(arg) == arg.kind = "null"

\* -------------------------------------------------------- preprocess_logs
level_map_DefaultsToDebug(l) ==
    CASE l = "DEBUG" -> 0
      [] l = "INFO" -> 1
      [] l = "WARN" -> 2
      [] l = "ERROR" -> 3
      [] l = "FATAL" -> 4
      [] OTHER -> 0
level_map(l) ==
    CASE l = "DEBUG" -> 0
      [] l = "INFO" -> 1
      [] l = "WARN" -> 2
      [] l = "ERROR" -> 3
      [] l = "FATAL" -> 4
      [] OTHER -> 1

source_map(s) ==
    CASE s = "api-gateway" -> 0
      [] s = "user-service" -> 1
      [] s = "db-replicator" -> 2
      [] s = "frontend-logger" -> 3
      [] s = "auth-service" -> 4
      [] OTHER -> 0

\* len(None) raises TypeError
PreprocessRaises(logs) == \E i \in 1..Len(logs) : logs[i].message < 0

preprocess_logs(logs) ==
    [i \in 1..Len(logs) |->
        <<level_map(logs[i].level), source_map(logs[i].source), logs[i].message>>]

\* ------------------------------------------------------------- normalizer
Max(S) == CHOOSE x \in S : \A y \in S : y <= x

\* np.max(X, axis=0); raises on an empty X (guarded by the caller)
ColMax(X) == [j \in 1..3 |-> Max({X[i][j] : i \in 1..Len(X)})]

\* feature_max[feature_max == 0] = 1
ZeroFix(fm) == [j \in 1..3 |-> IF fm[j] = 0 THEN 1 ELSE fm[j]]

\* X / feature_max, elementwise; a value is kept as <<numerator, denominator>>
\* (denominator 0 is numpy's inf/nan, which does not raise).
Scale(X, fm) == [i \in 1..Len(X) |-> [j \in 1..3 |-> <<X[i][j], fm[j]>>]]

\* int(len(X_scaled) * 0.8)
SplitIdx_RoundsUp(n) == (n * 8 + 9) \div 10
SplitIdx(n) == (n * 8) \div 10

Head_(X, k) == [i \in 1..k |-> X[i]]
Tail_(X, k) == [i \in 1..(Len(X) - k) |-> X[k + i]]

\* ------------------------------------------------------------ fit quality
\* Losses are kept in hundredths.
Losses == {10, 20, 30, 35, 50, 60}

CeilingTF == 10
CeilingIF == 50

Analysis_NotStrict(train_loss, val_loss, ceiling) ==
    IF val_loss * 10 >= train_loss * 15 THEN "Overfitting"
    ELSE IF train_loss >= ceiling THEN "Underfitting"
    ELSE "Balanced"
Analysis(train_loss, val_loss, ceiling) ==
    IF val_loss * 10 > train_loss * 15 THEN "Overfitting"
    ELSE IF train_loss > ceiling THEN "Underfitting"
    ELSE "Balanced"

\* -------------------------------------------------------------- responses
Resp(status, tag, body) == [status |-> status, tag |-> tag, body |-> body]
NoResp == Resp(0, "none", <<>>)

\* jsonify({'error': ...}), status; at names the statement that failed
Error(status, msg, at) == Resp(status, "error", [error |-> msg, at |-> at])

\* ------------------------------------------------------------------ state
VARIABLES
    started,          \* the __main__ block has run and the server accepts requests
    tfInstalled,      \* environment: import tensorflow succeeds
    HAS_TENSORFLOW,   \* module flag set by get_tensorflow()
    HAS_TRANSFORMERS, \* module flag set by the import at load time
    model,            \* global model: None or an object id
    feature_max,      \* global feature_max: None or an object id
    mdlObj,           \* heap: model objects by id
    fmObj,            \* heap: feature_max arrays by id
    nlp_model,        \* global nlp_model: None or the id of its weights
    nlp_tokenizer,    \* global nlp_tokenizer: None or the id of its vocabulary
    regHF,            \* model_registry['huggingface']
    regKaggle,        \* model_registry['kaggle']: subtype -> None or id
    diskHF,           \* ./models/hf_model
    diskKaggle,       \* ./models/kaggle_<subtype>.pkl: subtype -> None or id
    loghubCache,      \* keys of _loghub_cache
    nextRun,          \* number of the next training call
    lastTrained,      \* history: the run of the latest successful /train, per slot
    loc               \* per request thread: program counter and locals

envVars == <<started, tfInstalled, HAS_TENSORFLOW, HAS_TRANSFORMERS>>
numVars == <<model, feature_max, mdlObj, fmObj>>
hfVars == <<nlp_model, nlp_tokenizer, regHF, diskHF, loghubCache>>
kgVars == <<regKaggle, diskKaggle>>
vars == <<envVars, numVars, hfVars, kgVars, nextRun, lastTrained, loc>>

\* What a model object computes is kept as w: the error (in hundredths) it gives
\* a scaled row, by whether the row's level is ERROR or above.
Weights(S) == [BOOLEAN -> S]
NoWeights == [b \in BOOLEAN |-> 0]

NoModel == [backend |-> "none", fitted |-> FALSE, fitBy |-> None, w |-> NoWeights]
NoArray == <<>>

\* The classifier artifact that may already be on disk when the process starts.
DiskId == MaxRuns + 1

\* model_registry['huggingface'] is None
NoEntry == [model |-> None, tokenizer |-> None, model_name |-> "", dataset_name |-> ""]

\* ./models/hf_model: does the directory exist, and whose weights and
\* vocabulary does it hold
NoDisk == [exists |-> FALSE, model |-> None, tokenizer |-> None]
SavedDisk == [exists |-> TRUE, model |-> DiskId, tokenizer |-> DiskId]

KaggleTypes == {"random_forest", "logistic_regression", "svm"}

\* What a scoring or classifying call read from the globals.
NoUse == [fm |-> None, model |-> None, tokenizer |-> None, backend |-> "none",
          fitted |-> FALSE, fitBy |-> None]

\* The request fields the handlers branch on.
Req(logs_kind, text, model_type, model_name) ==
    [logs |-> logs_kind, text |-> text, model_type |-> model_type, model_name |-> model_name]
NoReq == Req("", "", "", "")

\* Locals of a request thread; pre is what a /train call found when it began:
\* the reconstruction slot on the numeric path, and on the classifier path the
\* classifier globals, the registry entry, the saved artifact and the cache keys.
IdleLoc ==
    [pc |-> "idle", op |-> "none", run |-> None, tf |-> FALSE, logs |-> <<>>,
     logsNone |-> FALSE, X |-> <<>>, X_train |-> <<>>, X_val |-> <<>>,
     arg |-> "", req |-> NoReq, used |-> NoUse,
     pre |-> <<None, None>>, resp |-> NoResp]

Init ==
    /\ started = FALSE
    /\ tfInstalled \in BOOLEAN
    /\ HAS_TENSORFLOW = FALSE
    /\ HAS_TRANSFORMERS \in BOOLEAN
    /\ model = None
    /\ feature_max = None
    /\ mdlObj = [r \in RunIds |-> NoModel]
    /\ fmObj = [r \in RunIds |-> NoArray]
    /\ nlp_model = None
    /\ nlp_tokenizer = None
    /\ regHF = NoEntry
    /\ regKaggle = [k \in KaggleTypes |-> None]
    /\ diskHF \in {NoDisk, SavedDisk}
    /\ diskKaggle = [k \in KaggleTypes |-> None]
    /\ loghubCache = {}
    /\ nextRun = 1
    /\ lastTrained = [num |-> None, hf |-> None]
    /\ loc = [t \in Threads |-> IdleLoc]

\* from_pretrained(model_path) raises unless the directory holds the file
LoadRaises(part) == part = None

\* Lines 1158-1170: the start-up block, before app.run
Startup ==
    /\ ~started
    /\ started' = TRUE
    /\ IF HAS_TRANSFORMERS /\ diskHF.exists
       THEN IF LoadRaises(diskHF.model)
            THEN UNCHANGED <<nlp_model, nlp_tokenizer>>
            ELSE /\ nlp_model' = diskHF.model
                 /\ nlp_tokenizer' =
                        IF LoadRaises(diskHF.tokenizer) THEN nlp_tokenizer
                        ELSE diskHF.tokenizer
       ELSE UNCHANGED <<nlp_model, nlp_tokenizer>>
    /\ UNCHANGED <<tfInstalled, HAS_TENSORFLOW, HAS_TRANSFORMERS, numVars, regHF,
                   diskHF, loghubCache, kgVars, nextRun, lastTrained, loc>>

\* The handler returns: the thread holds the response until it is sent.
Return(t, r) == [loc[t] EXCEPT !.pc = "done", !.resp = r]

\* ------------------------------------------------------- /train (numeric)
\* Lines 642-661: get_tensorflow(), request parsing, the None check and the
\* dispatch on model_type.
TrainBegin(t, arg, model_type, dataset_name) ==
    /\ started
    /\ loc[t].pc = "idle"
    /\ nextRun <= MaxRuns
    /\ nextRun' = nextRun + 1
    /\ HAS_TENSORFLOW' = (HAS_TENSORFLOW \/ tfInstalled)
    /\ LET l0 == [IdleLoc EXCEPT !.op = "train", !.run = nextRun,
                                 !.tf = tfInstalled, !.logs = GetLogs(arg),
                                 !.logsNone = LogsIsNone(arg),
                                 !.req = Req(arg.kind, "", model_type, ""),
                                 !.pre = IF model_type = "huggingface"
                                         THEN <<nlp_model, nlp_tokenizer, regHF,
                                                diskHF, loghubCache>>
                                         ELSE <<model, feature_max>>]
       IN  loc' = [loc EXCEPT ![t] =
                IF LogsIsNone(arg) /\ model_type # "huggingface"
                THEN [l0 EXCEPT !.pc = "done",
                                !.resp = Error(400, "No logs provided", "check")]
                ELSE IF model_type = "huggingface"
                THEN [l0 EXCEPT !.pc = "h664", !.arg = dataset_name]
                ELSE [l0 EXCEPT !.pc = "t793"]]
    /\ UNCHANGED <<started, tfInstalled, HAS_TRANSFORMERS, numVars, hfVars, kgVars, lastTrained>>

\* Lines 793-794: X = preprocess_logs(logs); feature_max = np.max(X, axis=0)
Train793(t) ==
    /\ loc[t].pc = "t793"
    /\ LET logs == loc[t].logs
           X == preprocess_logs(logs)
           id == loc[t].run
       IN  IF PreprocessRaises(logs) \/ Len(logs) = 0
           THEN /\ loc' = [loc EXCEPT ![t] =
                        Return(t, Error(500, "exception", "prepare"))]
                /\ UNCHANGED <<feature_max, fmObj>>
           ELSE /\ fmObj' = [fmObj EXCEPT ![id] = ColMax(X)]
                /\ feature_max' = id
                /\ loc' = [loc EXCEPT ![t].pc = "t795", ![t].X = X]
    /\ UNCHANGED <<envVars, model, mdlObj, hfVars, kgVars, nextRun, lastTrained>>

\* Line 795: feature_max[feature_max == 0] = 1, in place, through the global
Train795(t) ==
    /\ loc[t].pc = "t795"
    /\ fmObj' = [fmObj EXCEPT ![feature_max] = ZeroFix(@)]
    /\ loc' = [loc EXCEPT ![t].pc = "t796"]
    /\ UNCHANGED <<envVars, model, feature_max, mdlObj, hfVars, kgVars, nextRun, lastTrained>>

\* Lines 796-800: X_scaled = X / feature_max (the global), 80/20 split
Train796(t) ==
    /\ loc[t].pc = "t796"
    /\ LET X_scaled == Scale(loc[t].X, fmObj[feature_max])
           split_idx == SplitIdx(Len(X_scaled))
       IN  loc' = [loc EXCEPT ![t].pc = IF loc[t].tf THEN "t849" ELSE "t804",
                              ![t].X_train = Head_(X_scaled, split_idx),
                              ![t].X_val = Tail_(X_scaled, split_idx)]
    /\ UNCHANGED <<envVars, numVars, hfVars, kgVars, nextRun, lastTrained>>

\* Lines 803-804 (fallback) and 849-850 (TensorFlow): the new, unfitted
\* model object is bound to the global before it is fit.
NewModelObj(backend, w) == [backend |-> backend, fitted |-> FALSE, fitBy |-> None, w |-> w]

\* W: what the new object may compute before it is fit (its initial weights)
TrainNewModel(t, W) ==
    /\ loc[t].pc \in {"t804", "t849"}
    /\ \E w \in W :
            mdlObj' = [mdlObj EXCEPT ![loc[t].run] =
                        NewModelObj(IF loc[t].pc = "t804" THEN "iforest" ELSE "tf", w)]
    /\ model' = loc[t].run
    /\ loc' = [loc EXCEPT ![t].pc = IF loc[t].pc = "t804" THEN "t805" ELSE "t852"]
    /\ UNCHANGED <<envVars, feature_max, fmObj, hfVars, kgVars, nextRun, lastTrained>>

\* Both estimators reject an empty training set.
FitRaises(X_train) == Len(X_train) = 0

\* Lines 805 and 852-858: model.fit(X_train) on whatever the global names;
\* W: what the fitted object may compute
TrainFit(t, W) ==
    /\ loc[t].pc \in {"t805", "t852"}
    /\ IF FitRaises(loc[t].X_train)
       THEN /\ loc' = [loc EXCEPT ![t] =
                    Return(t, Error(500, "exception", "fit"))]
            /\ UNCHANGED mdlObj
       ELSE /\ \E w \in W :
                    mdlObj' = [mdlObj EXCEPT ![model].fitted = TRUE,
                                             ![model].fitBy = loc[t].run,
                                             ![model].w = w]
            /\ loc' = [loc EXCEPT ![t].pc = IF loc[t].pc = "t805" THEN "t808" ELSE "t860"]
    /\ UNCHANGED <<envVars, model, feature_max, fmObj, hfVars, kgVars, nextRun, lastTrained>>

TrainOk(message, samples, tl, vl, analysis, framework) ==
    Resp(200, "trained",
         [message |-> message, samples |-> samples, status |-> "ready",
          train_loss |-> tl, val_loss |-> vl, analysis |-> analysis,
          framework |-> framework])

\* Lines 808-828: fallback losses through the global model, fit quality, reply
TrainReplyIF(t, L) ==
    /\ loc[t].pc = "t808"
    /\ IF ~mdlObj[model].fitted
       THEN /\ loc' = [loc EXCEPT ![t] =
                    Return(t, Error(500, "exception", "score"))]
            /\ UNCHANGED lastTrained
       ELSE /\ \E tl \in L, v \in L :
                LET vl == IF Len(loc[t].X_val) > 0 THEN v ELSE tl
                IN  loc' = [loc EXCEPT ![t] =
                        Return(t, TrainOk("Model trained using scikit-learn (TensorFlow unavailable)",
                                          Len(loc[t].logs), tl, vl,
                                          Analysis(tl, vl, CeilingIF),
                                          "Scikit-learn (Isolation Forest)"))]
            /\ lastTrained' = [lastTrained EXCEPT !.num = loc[t].run]
    /\ UNCHANGED <<envVars, numVars, hfVars, kgVars, nextRun>>

\* Lines 860-878: losses from the fit history, fit quality, reply
TrainReplyTF(t, L) ==
    /\ loc[t].pc = "t860"
    /\ \E tl \in L, v \in L :
            LET vl == IF Len(loc[t].X_val) > 0 THEN v ELSE tl
            IN  loc' = [loc EXCEPT ![t] =
                    Return(t, TrainOk("Model trained", Len(loc[t].logs), tl, vl,
                                      Analysis(tl, vl, CeilingTF), "TensorFlow"))]
    /\ lastTrained' = [lastTrained EXCEPT !.num = loc[t].run]
    /\ UNCHANGED <<envVars, numVars, hfVars, kgVars, nextRun>>

\* ---------------------------------------------------------------- /predict
Scores == {5, 20}
HighRisk == 10

\* Line 906
Placeholder_AsError == Error(400, "Model not trained", "check")
Placeholder == Resp(200, "placeholder", [mean_score |-> 0, message |-> "Model not trained"])

\* Line 892: model is not None and feature_max is not None
ArtifactActive == model # None /\ feature_max # None

\* Lines 888-892 and 905-906
PredictBegin(t, arg) ==
    /\ started
    /\ loc[t].pc = "idle"
    /\ LET logs == GetLogs(arg)
           l0 == [IdleLoc EXCEPT !.op = "predict", !.logs = logs,
                                 !.req = Req(arg.kind, "", "", "")]
       IN  loc' = [loc EXCEPT ![t] =
                IF Len(logs) = 0
                THEN [l0 EXCEPT !.pc = "done",
                                !.resp = Error(400, "No logs provided", "check")]
                ELSE IF PreprocessRaises(logs)
                THEN [l0 EXCEPT !.pc = "done",
                                !.resp = Error(500, "exception", "prepare")]
                ELSE IF ArtifactActive
                THEN [l0 EXCEPT !.pc = "p893", !.X = preprocess_logs(logs)]
                ELSE [l0 EXCEPT !.pc = "done", !.resp = Placeholder]]
    /\ UNCHANGED <<envVars, numVars, hfVars, kgVars, nextRun, lastTrained>>

\* Line 893: X_norm = X / feature_max
Predict893(t) ==
    /\ loc[t].pc = "p893"
    /\ loc' = [loc EXCEPT ![t].pc = "p894",
                          ![t].X = Scale(loc[t].X, fmObj[feature_max]),
                          ![t].used = [NoUse EXCEPT !.fm = feature_max]]
    /\ UNCHANGED <<envVars, numVars, hfVars, kgVars, nextRun, lastTrained>>

\* X_norm - model.predict(X_norm): an isolation forest returns one label per
\* record, shape (n,), which broadcasts against (n, 3) only for n = 1 or n = 3.
Broadcasts(n) == n = 1 \/ n = 3

Count(f, P(_)) == Cardinality({i \in DOMAIN f : P(f[i])})

RECURSIVE SumTo(_, _)
SumTo(f, n) == IF n = 0 THEN 0 ELSE f[n] + SumTo(f, n - 1)

\* Lines 894-895: the mean squared difference between a scaled row and what the
\* model object returns for it
Score_VariesPerCall(m, x) ==
    m.w[x[1][1] >= 3] + Cardinality({u \in Threads : loc[u].pc = "done"})
Score(m, x) == m.w[x[1][1] >= 3]

\* Lines 894-904
Predict894(t) ==
    /\ loc[t].pc = "p894"
    /\ LET m == mdlObj[model]
           n == Len(loc[t].X)
           u == [loc[t].used EXCEPT !.model = model, !.backend = m.backend,
                                    !.fitted = m.fitted, !.fitBy = m.fitBy]
       IN  IF m.backend = "iforest" /\ ~m.fitted
           THEN loc' = [loc EXCEPT ![t] =
                    [Return(t, Error(500, "exception", "predict"))
                        EXCEPT !.used = u]]
           ELSE IF m.backend = "iforest" /\ ~Broadcasts(n)
           THEN loc' = [loc EXCEPT ![t] =
                    [Return(t, Error(500, "exception", "broadcast"))
                        EXCEPT !.used = u]]
           ELSE LET mse == [i \in 1..n |-> Score(m, loc[t].X[i])]
                IN  loc' = [loc EXCEPT ![t] =
                    [Return(t, Resp(200, "scored",
                        [mean_sum |-> SumTo(mse, n), mean_n |-> n,
                         high_risk_count |-> Count(mse, LAMBDA s : s > HighRisk),
                         total_processed |-> Len(loc[t].logs),
                         individual_scores |-> mse,
                         model |-> "tf-autoencoder-v1"]))
                        EXCEPT !.used = u]]
    /\ UNCHANGED <<envVars, numVars, hfVars, kgVars, nextRun, lastTrained>>

\* ----------------------------------------------------- /train (classifier)
HFFailed == Error(500, "Hugging Face training failed", "hf")

LOGHUB_DATASETS == {"hdfs", "bgl"}
BaseModel == "distilbert-base-uncased"

\* Lines 664-673: the imports and the base model; ok = the hub answers
TrainHF664(t, ok) ==
    /\ loc[t].pc = "h664"
    /\ loc' = [loc EXCEPT ![t] =
            IF ~HAS_TRANSFORMERS \/ ~ok THEN Return(t, HFFailed)
            ELSE [loc[t] EXCEPT !.pc = "h675"]]
    /\ UNCHANGED <<envVars, numVars, hfVars, kgVars, nextRun, lastTrained>>

\* dataset.train_test_split(test_size=0.2) needs a record on each side
SplitRaises(n) == n < 2

\* Lines 675-739: the dataset from the request, the Loghub cache or the hub;
\* ok = the download succeeds
TrainHF675(t, ok) ==
    /\ loc[t].pc = "h675"
    /\ LET ds == loc[t].arg
           logs == loc[t].logs
       IN  IF ds = "custom"
           THEN /\ loc' = [loc EXCEPT ![t] =
                        IF loc[t].logsNone \/ PreprocessRaises(logs) \/ SplitRaises(Len(logs))
                        THEN Return(t, HFFailed)
                        ELSE [loc[t] EXCEPT !.pc = "h741"]]
                /\ UNCHANGED loghubCache
           ELSE IF ds \in LOGHUB_DATASETS \/ ds \in loghubCache
           THEN IF ds \in loghubCache
                THEN /\ loc' = [loc EXCEPT ![t].pc = "h741"]
                     /\ UNCHANGED loghubCache
                ELSE IF ok
                THEN /\ loghubCache' = loghubCache \cup {ds}
                     /\ loc' = [loc EXCEPT ![t].pc = "h741"]
                ELSE /\ loc' = [loc EXCEPT ![t] = Return(t, HFFailed)]
                     /\ UNCHANGED loghubCache
           ELSE /\ loc' = [loc EXCEPT ![t] =
                        IF ok THEN [loc[t] EXCEPT !.pc = "h741"] ELSE Return(t, HFFailed)]
                /\ UNCHANGED loghubCache
    /\ UNCHANGED <<envVars, numVars, nlp_model, nlp_tokenizer, regHF, diskHF, kgVars, nextRun, lastTrained>>

\* Lines 741-758: trainer.train() and trainer.evaluate(); ok = neither raises
TrainHF741(t, ok) ==
    /\ loc[t].pc = "h741"
    /\ loc' = [loc EXCEPT ![t] =
            IF ok THEN [loc[t] EXCEPT !.pc = "h761"] ELSE Return(t, HFFailed)]
    /\ UNCHANGED <<envVars, numVars, hfVars, kgVars, nextRun, lastTrained>>

\* Lines 761-763: os.makedirs and hf_model.save_pretrained; ok = the write succeeds
TrainHF761(t, ok) ==
    /\ loc[t].pc = "h761"
    /\ IF ok
       THEN /\ diskHF' = [diskHF EXCEPT !.exists = TRUE, !.model = loc[t].run]
            /\ loc' = [loc EXCEPT ![t].pc = "h764"]
       ELSE /\ diskHF' = [diskHF EXCEPT !.exists = TRUE]
            /\ loc' = [loc EXCEPT ![t] = Return(t, HFFailed)]
    /\ UNCHANGED <<envVars, numVars, nlp_model, nlp_tokenizer, regHF, loghubCache, kgVars, nextRun, lastTrained>>

\* Line 764: tokenizer.save_pretrained
TrainHF764(t, ok) ==
    /\ loc[t].pc = "h764"
    /\ IF ok
       THEN /\ diskHF' = [diskHF EXCEPT !.tokenizer = loc[t].run]
            /\ loc' = [loc EXCEPT ![t].pc = "h769"]
       ELSE /\ loc' = [loc EXCEPT ![t] = Return(t, HFFailed)]
            /\ UNCHANGED diskHF
    /\ UNCHANGED <<envVars, numVars, nlp_model, nlp_tokenizer, regHF, loghubCache, kgVars, nextRun, lastTrained>>

\* Line 769: nlp_model = hf_model
TrainHF769_WritesModel(t) ==
    /\ loc[t].pc = "h769"
    /\ model' = loc[t].run
    /\ loc' = [loc EXCEPT ![t].pc = "h770"]
    /\ UNCHANGED <<envVars, feature_max, mdlObj, fmObj, hfVars, kgVars, nextRun, lastTrained>>
TrainHF769(t) ==
    /\ loc[t].pc = "h769"
    /\ nlp_model' = loc[t].run
    /\ loc' = [loc EXCEPT ![t].pc = "h770"]
    /\ UNCHANGED <<envVars, numVars, nlp_tokenizer, regHF, diskHF, loghubCache, kgVars, nextRun, lastTrained>>

\* Line 770: nlp_tokenizer = tokenizer
TrainHF770(t) ==
    /\ loc[t].pc = "h770"
    /\ nlp_tokenizer' = loc[t].run
    /\ loc' = [loc EXCEPT ![t].pc = "h773"]
    /\ UNCHANGED <<envVars, numVars, nlp_model, regHF, diskHF, loghubCache, kgVars, nextRun, lastTrained>>

\* Lines 773-786: one store into model_registry['huggingface'], then the reply
TrainHF773(t) ==
    /\ loc[t].pc = "h773"
    /\ regHF' = [model |-> loc[t].run, tokenizer |-> loc[t].run,
                 model_name |-> BaseModel, dataset_name |-> loc[t].arg]
    /\ loc' = [loc EXCEPT ![t] =
            Return(t, Resp(200, "trained",
                [status |-> "ready", framework |-> "Hugging Face Transformers"]))]
    /\ lastTrained' = [lastTrained EXCEPT !.hf = loc[t].run]
    /\ UNCHANGED <<envVars, numVars, nlp_model, nlp_tokenizer, diskHF, loghubCache, kgVars, nextRun>>

\* ---------------------------------------------------------- /train-dataset
\* Lines 1010-1060: validation, CSV parsing, split, model selection, fit and
\* evaluation; ok = none of the pandas/scikit-learn calls raises
TrainDatasetBegin(t, fields, model_type, ok) ==
    /\ started
    /\ loc[t].pc = "idle"
    /\ nextRun <= MaxRuns
    /\ nextRun' = nextRun + 1
    /\ LET l0 == [IdleLoc EXCEPT !.op = "train_dataset", !.run = nextRun,
                                 !.arg = model_type, !.req = Req("", "", model_type, "")]
       IN  loc' = [loc EXCEPT ![t] =
                IF ~fields
                THEN [l0 EXCEPT !.pc = "done",
                        !.resp = Error(400, "Missing required fields", "check")]
                ELSE IF ~ok
                THEN [l0 EXCEPT !.pc = "done",
                        !.resp = Error(500, "exception", "fit")]
                ELSE IF model_type \notin KaggleTypes
                THEN [l0 EXCEPT !.pc = "done",
                        !.resp = Error(400, "Unknown model type", "check")]
                ELSE [l0 EXCEPT !.pc = "d1063"]]
    /\ UNCHANGED <<envVars, numVars, hfVars, kgVars, lastTrained>>

\* Lines 1063-1068: pickle.dump to ./models/kaggle_<subtype>.pkl
TrainDataset1063(t, ok) ==
    /\ loc[t].pc = "d1063"
    /\ IF ok
       THEN /\ diskKaggle' = [diskKaggle EXCEPT ![loc[t].arg] = loc[t].run]
            /\ loc' = [loc EXCEPT ![t].pc = "d1072"]
       ELSE /\ loc' = [loc EXCEPT ![t] =
                    Return(t, Error(500, "exception", "save"))]
            /\ UNCHANGED diskKaggle
    /\ UNCHANGED <<envVars, numVars, hfVars, regKaggle, nextRun, lastTrained>>

\* Lines 1071-1089: model_registry['kaggle'][model_type] = {...}, then the reply
TrainDataset1072_ReplacesTable(t) ==
    /\ loc[t].pc = "d1072"
    /\ regKaggle' = [k \in KaggleTypes |-> IF k = loc[t].arg THEN loc[t].run ELSE None]
    /\ loc' = [loc EXCEPT ![t] =
            Return(t, Resp(200, "trained", [model_type |-> loc[t].arg]))]
    /\ UNCHANGED <<envVars, numVars, hfVars, diskKaggle, nextRun, lastTrained>>
TrainDataset1072(t) ==
    /\ loc[t].pc = "d1072"
    /\ regKaggle' = [regKaggle EXCEPT ![loc[t].arg] = loc[t].run]
    /\ loc' = [loc EXCEPT ![t] =
            Return(t, Resp(200, "trained", [model_type |-> loc[t].arg]))]
    /\ UNCHANGED <<envVars, numVars, hfVars, diskKaggle, nextRun, lastTrained>>

\* ----------------------------------------------------------- /classify-log
\* model_name not in model_registry['kaggle']
KaggleMissing(model_name) ==
    \/ model_name \notin KaggleTypes
    \/ regKaggle[model_name] = None

\* Line 1111: model_registry['huggingface'] is None
HFSlotEmpty_WrongStore == nlp_model = None
HFSlotEmpty == regHF = NoEntry

\* Lines 1102-1150; cls is the class the classifier picks
ClassifyLog(t, text, model_type, model_name, cls) ==
    /\ started
    /\ loc[t].pc = "idle"
    /\ LET l0 == [IdleLoc EXCEPT !.op = "classify", !.arg = model_type, !.pc = "done",
                                 !.req = Req("", text, model_type, model_name)]
       IN  loc' = [loc EXCEPT ![t] =
            IF text = ""
            THEN [l0 EXCEPT !.resp = Error(400, "No text provided", "check")]
            ELSE IF model_type = "huggingface"
            THEN IF HFSlotEmpty
                 THEN [l0 EXCEPT !.resp =
                        Error(400, "No HuggingFace model loaded", "check")]
                 ELSE [l0 EXCEPT !.used = [NoUse EXCEPT !.model = regHF.model,
                                                           !.tokenizer = regHF.tokenizer],
                                 !.resp = Resp(200, "classified",
                                    [prediction |-> IF cls = 1 THEN "CRITICAL" ELSE "NORMAL",
                                     class_id |-> cls])]
            ELSE IF model_type = "kaggle"
            THEN IF KaggleMissing(model_name)
                 THEN [l0 EXCEPT !.resp =
                        Error(400, "Kaggle model not found", "check")]
                 ELSE [l0 EXCEPT !.resp = Resp(200, "classified",
                                    [prediction |-> "NORMAL", class_id |-> 0])]
            ELSE [l0 EXCEPT !.resp = Error(400, "Invalid model type", "check")]]
    /\ UNCHANGED <<envVars, numVars, hfVars, kgVars, nextRun, lastTrained>>

\* ------------------------------------------------------------- /predict_hf
\* Lines 957-970: the lazy load of the model from disk
PredictHFBegin(t, text) ==
    /\ started
    /\ loc[t].pc = "idle"
    /\ LET l0 == [IdleLoc EXCEPT !.op = "predict_hf", !.arg = text,
                                 !.req = Req("", text, "", "")]
           failed == [l0 EXCEPT !.pc = "done",
                        !.resp = Error(500, "Failed to load model", "load")]
       IN  IF nlp_model = None \/ nlp_tokenizer = None
           THEN IF ~HAS_TRANSFORMERS
                THEN /\ loc' = [loc EXCEPT ![t] = failed]
                     /\ UNCHANGED nlp_model
                ELSE IF diskHF.exists
                THEN IF LoadRaises(diskHF.model)
                     THEN /\ loc' = [loc EXCEPT ![t] = failed]
                          /\ UNCHANGED nlp_model
                     ELSE /\ nlp_model' = diskHF.model
                          /\ loc' = [loc EXCEPT ![t] = [l0 EXCEPT !.pc = "ph965"]]
                ELSE /\ loc' = [loc EXCEPT ![t] = [l0 EXCEPT !.pc = "done",
                            !.resp = Error(400, "Model not trained or loaded", "check")]]
                     /\ UNCHANGED nlp_model
           ELSE /\ loc' = [loc EXCEPT ![t] = [l0 EXCEPT !.pc = "ph972"]]
                /\ UNCHANGED nlp_model
    /\ UNCHANGED <<envVars, numVars, nlp_tokenizer, regHF, diskHF, loghubCache, kgVars, nextRun, lastTrained>>

\* Line 965: nlp_tokenizer = AutoTokenizer.from_pretrained(model_path)
PredictHF965(t) ==
    /\ loc[t].pc = "ph965"
    /\ IF LoadRaises(diskHF.tokenizer)
       THEN /\ loc' = [loc EXCEPT ![t] =
                    Return(t, Error(500, "Failed to load model", "load"))]
            /\ UNCHANGED nlp_tokenizer
       ELSE /\ nlp_tokenizer' = diskHF.tokenizer
            /\ loc' = [loc EXCEPT ![t].pc = "ph972"]
    /\ UNCHANGED <<envVars, numVars, nlp_model, regHF, diskHF, loghubCache, kgVars, nextRun, lastTrained>>

\* Lines 972-992: inference through the globals; cls is the class picked
PredictHF972(t, cls) ==
    /\ loc[t].pc = "ph972"
    /\ loc' = [loc EXCEPT ![t] =
            IF loc[t].arg = ""
            THEN Return(t, Error(400, "No text provided", "check"))
            ELSE [Return(t, Resp(200, "classified",
                        [label |-> IF cls = 1 THEN "POSITIVE" ELSE "NEGATIVE",
                         class_id |-> cls]))
                    EXCEPT !.used = [NoUse EXCEPT !.model = nlp_model,
                                                  !.tokenizer = nlp_tokenizer]]]
    /\ UNCHANGED <<envVars, numVars, hfVars, kgVars, nextRun, lastTrained>>

\* -------------------------------------------------------------- /attribute
\* request.json['log']: level and source are strings ("absent" = key missing);
\* message is absent, JSON null, or a text, kept as its words.  The handler
\* looks at a text only through its length and the keywords in its lower case.
Msg(kind, words) == [kind |-> kind, words |-> words]
AttrLog(l, s, m) == [level |-> l, source |-> s, message |-> m]

\* Length of a word; "x100" and "x120" stand for runs of 100 and 120 characters.
WordLen(w) ==
    CASE w = "ok" -> 2
      [] w = "Timeout" -> 7
      [] w = "db" -> 2
      [] w = "x100" -> 100
      [] w = "x120" -> 120

\* str.lower()
Lower(w) == IF w = "Timeout" THEN "timeout" ELSE w

\* The keywords of lines 400-401 that occur in a lower-case word.
KeywordsIn(w) ==
    CASE w = "timeout" -> {"timeout"}
      [] w = "db" -> {"db"}
      [] OTHER -> {}

error_keywords ==
    {"fail", "error", "timeout", "exception", "critical", "denied", "crash", "fatal"}
db_keywords ==
    {"database", "sql", "query", "connection", "postgres", "db", "replicat"}

\* log.get('message', '')
GetMessage(log) == IF log.message.kind = "absent" THEN <<>> ELSE log.message.words

\* len(msg): the words are joined by single spaces
RECURSIVE TextLen(_)
TextLen(ws) ==
    IF ws = <<>> THEN 0
    ELSE IF Len(ws) = 1 THEN WordLen(ws[1])
    ELSE WordLen(Head(ws)) + 1 + TextLen(Tail(ws))

\* any(w in msg_lower for w in keywords)
HasKeyword(ws, keywords) ==
    \E i \in 1..Len(ws) : KeywordsIn(Lower(ws[i])) \cap keywords # {}

feature_names ==
    <<"Log Level", "Source Service", "Message Length", "Has Error Keywords",
      "Has DB Keywords">>

\* Lines 395-403: the five features of the one record
LogFeatures(log) ==
    [level_val |-> level_map(log.level),
     source_val |-> source_map(log.source),
     msg_len |-> TextLen(GetMessage(log)),
     has_error_kw |-> HasKeyword(GetMessage(log), error_keywords),
     has_db_kw |-> HasKeyword(GetMessage(log), db_keywords)]

Abs(x) == IF x < 0 THEN -x ELSE x

\* round() of the fraction n/d (n >= 0, d > 0) to an integer, ties to even
RoundDiv_Truncates(n, d) == n \div d
RoundDiv(n, d) ==
    LET q == n \div d
        r == n % d
    IN  IF 2 * r < d THEN q
        ELSE IF 2 * r > d THEN q + 1
        ELSE IF q % 2 = 0 THEN q ELSE q + 1

\* Line 433: abs_shap.sum() if abs_shap.sum() > 0 else 1.0
AbsTotal(shap_vals) ==
    LET sum == SumTo([i \in 1..5 |-> Abs(shap_vals[i])], 5)
    IN  IF sum > 0 THEN sum ELSE 1

\* Lines 445-448
ActualValue(log, f, i) ==
    CASE i = 1 -> (IF log.level = "absent" THEN "INFO" ELSE log.level)
      [] i = 2 -> (IF log.source = "absent" THEN "" ELSE log.source)
      [] i = 3 -> ToString(f.msg_len)
      [] i = 4 -> (IF f.has_error_kw THEN "Yes" ELSE "No")
      [] i = 5 -> (IF f.has_db_kw THEN "Yes" ELSE "No")

\* Lines 436-449; impact_percent is kept in tenths of a percent
FeatureImpacts(log, f, shap_vals) ==
    [i \in 1..5 |->
        [feature |-> feature_names[i],
         impact_percent |-> RoundDiv(Abs(shap_vals[i]) * 1000, AbsTotal(shap_vals)),
         shap_value |-> shap_vals[i],
         direction |-> IF shap_vals[i] < 0 THEN "increases" ELSE "decreases",
         actual_value |-> ActualValue(log, f, i)]]

\* Line 451: list.sort(key=impact_percent, reverse=True), which is stable
RECURSIVE InsertByImpact(_, _)
InsertByImpact(x, s) ==
    IF s = <<>> THEN <<x>>
    ELSE IF x.impact_percent >= Head(s).impact_percent THEN <<x>> \o s
    ELSE <<Head(s)>> \o InsertByImpact(x, Tail(s))

RECURSIVE SortByImpact(_)
SortByImpact(s) ==
    IF s = <<>> THEN <<>> ELSE InsertByImpact(Head(s), SortByImpact(Tail(s)))

Min(a, b) == IF a < b THEN a ELSE b

\* Lines 454-455, in hundredths: min(1.0, max(0.0, -decision + 0.5))
Normalized(decision) == Min(100, Max({0, 50 - decision}))

\* Lines 457-468: the reply of the statistical path; primary_cause is
\* "<feature> (<actual value>)", confidence is in hundredths
StatisticalResult_Unsorted(log, f, shap_vals, decision) ==
    LET feature_impacts == FeatureImpacts(log, f, shap_vals)
        primary == feature_impacts[1]
    IN  Resp(200, "attributed",
             [primary_cause |-> <<primary.feature, primary.actual_value>>,
              confidence |-> Normalized(decision),
              method |-> "shap-isolation-forest",
              feature_attributions |-> feature_impacts])
StatisticalResult(log, f, shap_vals, decision) ==
    LET feature_impacts == SortByImpact(FeatureImpacts(log, f, shap_vals))
        primary == feature_impacts[1]
    IN  Resp(200, "attributed",
             [primary_cause |-> <<primary.feature, primary.actual_value>>,
              confidence |-> Normalized(decision),
              method |-> "shap-isolation-forest",
              feature_attributions |-> feature_impacts])

Cause(name, detail, weight) == [name |-> name, detail |-> detail, weight |-> weight]

\* Lines 476-480: the rules that fire, in the order of the code; weights are in
\* hundredths
FiredRules_KeywordsFirst(log, f) ==
    (IF f.has_error_kw
     THEN <<Cause("Error Keywords", <<"Message contains error-related keywords">>, 30)>>
     ELSE <<>>)
    \o (IF f.level_val >= 3
        THEN <<Cause("Log Level",
                     <<"Level is", log.level, "severity", ToString(f.level_val)>>, 40)>>
        ELSE <<>>)
    \o (IF f.msg_len > 100
        THEN <<Cause("Message Length",
                     <<"Unusually long message", ToString(f.msg_len)>>, 20)>>
        ELSE <<>>)
    \o (IF f.has_db_kw
        THEN <<Cause("Database Reference", <<"Message references database components">>, 10)>>
        ELSE <<>>)
FiredRules(log, f) ==
    (IF f.level_val >= 3
     THEN <<Cause("Log Level",
                  <<"Level is", log.level, "severity", ToString(f.level_val)>>, 40)>>
     ELSE <<>>)
    \o (IF f.has_error_kw
        THEN <<Cause("Error Keywords", <<"Message contains error-related keywords">>, 30)>>
        ELSE <<>>)
    \o (IF f.msg_len > 100
        THEN <<Cause("Message Length",
                     <<"Unusually long message", ToString(f.msg_len)>>, 20)>>
        ELSE <<>>)
    \o (IF f.has_db_kw
        THEN <<Cause("Database Reference", <<"Message references database components">>, 10)>>
        ELSE <<>>)

\* Lines 476-483
Causes_NoDefault(log, f) == FiredRules(log, f)
Causes(log, f) ==
    IF Len(FiredRules(log, f)) = 0
    THEN <<Cause("Unexpected Pattern", <<"Log pattern deviates from normal baseline">>, 50)>>
    ELSE FiredRules(log, f)

\* Lines 485-495: the reply of the rule list; causes[0] raises IndexError on an
\* empty list, which the handler's except clause answers with 500
FallbackResult(log, f) ==
    LET causes == Causes(log, f)
    IN  IF Len(causes) = 0 THEN Error(500, "exception", "rules")
        ELSE Resp(200, "attributed",
                  [primary_cause |-> <<causes[1].name>>,
                   confidence |-> causes[1].weight,
                   method |-> "rule-based-fallback",
                   feature_attributions |->
                        [i \in 1..Len(causes) |->
                            [feature |-> causes[i].name,
                             impact_percent |-> causes[i].weight * 10,
                             shap_value |-> 0,
                             direction |-> "increases",
                             actual_value |-> causes[i].detail]]])

\* What the statistical block (lines 406-473) comes to: the import fails, some
\* call in it raises, or SHAP returns the five values and the forest the
\* decision value (in hundredths) of the record.
Outcome(kind, shap_vals, decision) ==
    [kind |-> kind, shap_vals |-> shap_vals, decision |-> decision]

\* Lines 384-497
Attribute(t, log, o) ==
    /\ started
    /\ loc[t].pc = "idle"
    /\ LET l0 == [IdleLoc EXCEPT !.op = "attribute", !.pc = "done", !.logs = <<log>>]
           f == LogFeatures(log)
       IN  loc' = [loc EXCEPT ![t] =
                IF log.message.kind = "null"
                THEN [l0 EXCEPT !.resp = Error(500, "exception", "prepare")]
                ELSE IF o.kind = "values"
                THEN [l0 EXCEPT !.arg = "statistical", !.X = <<o.shap_vals>>,
                                !.resp = StatisticalResult(log, f, o.shap_vals, o.decision)]
                ELSE [l0 EXCEPT !.arg = "rules", !.resp = FallbackResult(log, f)]]
    /\ UNCHANGED <<envVars, numVars, hfVars, kgVars, nextRun, lastTrained>>

\* ------------------------------------------------------------ scheduling
\* The response has been sent; the thread is free for the next request.
Reply(t) ==
    /\ loc[t].pc = "done"
    /\ loc' = [loc EXCEPT ![t] = IdleLoc]
    /\ UNCHANGED <<envVars, numVars, hfVars, kgVars, nextRun, lastTrained>>

\* Inputs of the concurrent specification: one record sequence whose training
\* split is empty and two that fit, one request to score, one loss, one score.
ConcTrainArgs ==
    {[kind |-> "list", recs |-> <<RecError>>],
     [kind |-> "list", recs |-> <<RecQuiet, RecError>>],
     [kind |-> "list", recs |-> <<RecError, RecError>>]}
ConcPredictArgs == {[kind |-> "list", recs |-> <<RecError>>]}
ConcLosses == {20}
ConcWeights == Weights({20})
ConcDatasets == {"custom"}
ConcKaggle == {"svm"}
ConcTexts == {"disk full"}
ConcModelTypes == {"huggingface"}
ConcClasses == {1}

ConcAttrLogs == {AttrLog("FATAL", "db-replicator", Msg("text", <<"Timeout">>))}
ConcOutcomes == {Outcome("raises", <<>>, 0)}

\* One-at-a-time requests: a new object gives every row the same error; a
\* fitted one gives quiet rows a low error and severe rows a low or a high one.
InitWeights == Weights({20})
FitWeights == {w \in Weights(Scores) : w[FALSE] = 5}

Datasets == {"custom", "hdfs", "imdb"}
Texts == {"", "disk full"}
ModelTypes == {"huggingface", "kaggle", "onnx"}
ModelNames == KaggleTypes \cup {"default"}
Classes == {0, 1}

Step(t, L, W0, W, CL) ==
    \/ Train793(t)
    \/ Train795(t)
    \/ Train796(t)
    \/ TrainNewModel(t, W0)
    \/ TrainFit(t, W)
    \/ TrainReplyIF(t, L)
    \/ TrainReplyTF(t, L)
    \/ \E ok \in BOOLEAN : TrainHF664(t, ok)
    \/ \E ok \in BOOLEAN : TrainHF675(t, ok)
    \/ \E ok \in BOOLEAN : TrainHF741(t, ok)
    \/ \E ok \in BOOLEAN : TrainHF761(t, ok)
    \/ \E ok \in BOOLEAN : TrainHF764(t, ok)
    \/ TrainHF769(t)
    \/ TrainHF770(t)
    \/ TrainHF773(t)
    \/ \E ok \in BOOLEAN : TrainDataset1063(t, ok)
    \/ TrainDataset1072(t)
    \/ Predict893(t)
    \/ Predict894(t)
    \/ PredictHF965(t)
    \/ \E cls \in CL : PredictHF972(t, cls)
    \/ Reply(t)

Begin(t, TA, PA, DS, KT, TX, MT, MN, CL, AL, AO) ==
    \/ \E log \in AL, o \in AO : Attribute(t, log, o)
    \/ \E arg \in TA, mt \in {"tensorflow", "huggingface"}, ds \in DS :
            TrainBegin(t, arg, mt, ds)
    \/ \E fields \in BOOLEAN, mt \in KT, ok \in BOOLEAN :
            TrainDatasetBegin(t, fields, mt, ok)
    \/ \E arg \in PA : PredictBegin(t, arg)
    \/ \E text \in TX : PredictHFBegin(t, text)
    \/ \E text \in TX, mt \in MT, mn \in MN, cls \in CL :
            ClassifyLog(t, text, mt, mn, cls)

\* Requests are served concurrently, one thread each.
Next ==
    \/ Startup
    \/ \E t \in Threads :
        \/ Begin(t, ConcTrainArgs, ConcPredictArgs, ConcDatasets, ConcKaggle,
                 ConcTexts, ConcModelTypes, ConcKaggle, ConcClasses,
                 ConcAttrLogs, ConcOutcomes)
        \/ Step(t, ConcLosses, ConcWeights, ConcWeights, ConcClasses)

Spec == Init /\ [][Next]_vars

\* Requests are served one at a time, by the first thread: a request starts
\* when no other is in progress.
AllIdle == \A t \in Threads : loc[t].pc = "idle"

NextSeq ==
    \/ Startup
    \/ \E t \in {1} :
        \/ AllIdle /\ Begin(t, LogsArgs, LogsArgs, Datasets, KaggleTypes \cup {"xgboost"},
                            Texts, ModelTypes, ModelNames, Classes,
                            ConcAttrLogs, ConcOutcomes)
        \/ Step(t, Losses, InitWeights, FitWeights, Classes)

SpecSeq == Init /\ [][NextSeq]_vars

\* The first numeric training of the process, over records of every level and
\* source of the vocabulary, of unknown ones and of missing ones.
EncLevels == {"absent", "DEBUG", "INFO", "WARN", "ERROR", "FATAL", "TRACE"}
EncSources ==
    {"absent", "api-gateway", "user-service", "db-replicator", "frontend-logger",
     "auth-service", "billing"}
EncLengths == {-1, 0, 4}
RecUnknown == Rec("TRACE", "billing", 4)
EncodeArgs ==
    {[kind |-> "list", recs |-> <<Rec(l, s, m)>>] :
        l \in EncLevels, s \in EncSources, m \in EncLengths}
    \cup {[kind |-> "list", recs |-> <<a, b>>] : a, b \in {RecQuiet, RecError, RecUnknown}}

NextEncode ==
    \/ Startup
    \/ \E t \in {1} :
        \/ /\ nextRun = 1
           /\ loc[t].pc = "idle"
           /\ \E arg \in EncodeArgs : TrainBegin(t, arg, "tensorflow", "custom")
        \/ Train793(t)
        \/ Train795(t)
        \/ Train796(t)
        \/ TrainNewModel(t, ConcWeights)
        \/ TrainFit(t, ConcWeights)
        \/ TrainReplyIF(t, ConcLosses)
        \/ TrainReplyTF(t, ConcLosses)
        \/ Reply(t)

SpecEncode == Init /\ [][NextEncode]_vars

\* Scoring calls that overlap one another, between trainings that run alone.
PairPredictArgs ==
    {[kind |-> "list", recs |-> <<RecError>>],
     [kind |-> "list", recs |-> <<RecQuiet, RecError>>]}

NoTraining == \A u \in Threads : loc[u].op # "train"

NextPair ==
    \/ Startup
    \/ \E t \in Threads :
        \/ AllIdle /\ \E arg \in ConcTrainArgs : TrainBegin(t, arg, "tensorflow", "custom")
        \/ NoTraining /\ \E arg \in PairPredictArgs : PredictBegin(t, arg)
        \/ Train793(t)
        \/ Train795(t)
        \/ Train796(t)
        \/ TrainNewModel(t, InitWeights)
        \/ TrainFit(t, FitWeights)
        \/ TrainReplyIF(t, ConcLosses)
        \/ TrainReplyTF(t, ConcLosses)
        \/ Predict893(t)
        \/ Predict894(t)
        \/ Reply(t)

SpecPair == Init /\ [][NextPair]_vars

\* Numeric trainings that overlap one another, on record sequences whose
\* per-column maxima differ: all zero but the level, and none zero.
OverlapTrainArgs ==
    {[kind |-> "list", recs |-> <<RecQuiet, RecQuiet>>],
     [kind |-> "list", recs |-> <<RecError, RecError>>]}

NextOverlap ==
    \/ Startup
    \/ \E t \in Threads :
        \/ \E arg \in OverlapTrainArgs : TrainBegin(t, arg, "tensorflow", "custom")
        \/ Train793(t)
        \/ Train795(t)
        \/ Train796(t)
        \/ TrainNewModel(t, ConcWeights)
        \/ TrainFit(t, ConcWeights)
        \/ TrainReplyIF(t, ConcLosses)
        \/ TrainReplyTF(t, ConcLosses)
        \/ Reply(t)

SpecOverlap == Init /\ [][NextOverlap]_vars

\* The records /attribute is given and the outcomes of its statistical block.
AttrLevels == {"absent", "INFO", "ERROR", "FATAL", "TRACE"}
AttrSources == {"absent", "db-replicator"}
AttrTexts ==
    {<<>>, <<"ok">>, <<"Timeout">>, <<"x100">>, <<"x120">>, <<"db">>, <<"Timeout", "db">>,
     <<"x120", "Timeout">>, <<"x120", "db">>, <<"x120", "Timeout", "db">>}
AttrMessages ==
    {Msg("absent", <<>>), Msg("null", <<>>)} \cup {Msg("text", ws) : ws \in AttrTexts}
AttrLogs == {AttrLog(l, s, m) : l \in AttrLevels, s \in AttrSources, m \in AttrMessages}

ShapVals == {-2, 0, 1}
Decisions == {-70, 10}
Outcomes ==
    {Outcome("import_error", <<>>, 0), Outcome("raises", <<>>, 0)}
    \cup {Outcome("values", v, d) : v \in [1..5 -> ShapVals], d \in Decisions}

\* /attribute alone, over all its inputs: it reads and writes none of the
\* globals, so its replies do not depend on the other handlers.
NextAttr ==
    \/ Startup
    \/ \E t \in {1} :
        \/ loc[t].pc = "idle" /\ \E log \in AttrLogs, o \in Outcomes : Attribute(t, log, o)
        \/ Reply(t)

SpecAttr == Init /\ [][NextAttr]_vars

\* ------------------------------------------------------------- properties
Done(t) == loc[t].pc = "done"

\* A /train call on the numeric path (model_type is anything but 'huggingface').
NumericTrain(t) == loc[t].op = "train" /\ loc[t].req.model_type # "huggingface"

NumericTrainPcs == {"t793", "t795", "t796", "t804", "t849", "t805", "t852", "t808", "t860"}

\* A /predict call that ran the model (lines 893-894), whatever came of it.
Scored(t) == loc[t].op = "predict" /\ Done(t) /\ loc[t].used.model # None

\* No scaled value was divided by a zero profile entry.
ProfileComplete(X) == \A i \in 1..Len(X) : \A j \in 1..3 : X[i][j][2] # 0

\* Every model object that is not fit belongs to a /train still in progress: no
\* fit has raised.
NoFitRaised ==
    \A r \in RunIds :
        (mdlObj[r].backend # "none" /\ ~mdlObj[r].fitted)
            => \E t \in Threads : loc[t].run = r /\ loc[t].pc \in NumericTrainPcs

\* C1: while no fit raises, every /predict that ran the model used a model and a
\* profile of the same training run, the model fit to completion by that run and
\* the profile with its zeros replaced: never the new profile with the old model,
\* never an unfitted model.
C1_PredictSeesWholeArtifact ==
    \A t \in Threads :
        (Scored(t) /\ NoFitRaised) =>
            /\ loc[t].used.model = loc[t].used.fm
            /\ loc[t].used.fitted
            /\ loc[t].used.fitBy = loc[t].used.model
            /\ ProfileComplete(loc[t].X)

\* C2: a numeric /train whose fit step raised is answered 500 and leaves the
\* globals model and feature_max as the call found them.
C2_FitFailureLeavesSlot ==
    \A t \in Threads :
        (NumericTrain(t) /\ Done(t) /\ loc[t].resp.tag = "error" /\ loc[t].resp.body.at = "fit")
            => /\ loc[t].resp.status = 500
               /\ <<model, feature_max>> = loc[t].pre

\* C3: once some /train on a slot has succeeded, a later /predict runs the model
\* and the profile of the latest successful numeric training, and a later
\* /classify-log ('huggingface') the model of the latest successful classifier
\* training.
C3_ReadsLatestSuccessfulTraining ==
    \A t \in Threads :
        /\ (Scored(t) /\ lastTrained.num # None)
                => /\ loc[t].used.model = lastTrained.num
                   /\ loc[t].used.fm = lastTrained.num
        /\ (loc[t].op = "classify" /\ Done(t) /\ loc[t].resp.status = 200
            /\ loc[t].req.model_type = "huggingface" /\ lastTrained.hf # None)
                => loc[t].used.model = lastTrained.hf

\* C4: whenever no numeric /train is in progress, the globals model and
\* feature_max are objects of the same training run (or both None).
C4_ModelAndProfileOfOneRun ==
    (\A t \in Threads : loc[t].pc \notin NumericTrainPcs) => model = feature_max

\* The registry: the reconstruction slot, the classifier slot, the tabular slot.
registry == <<model, feature_max, mdlObj, fmObj, regHF, regKaggle>>

\* Thread t takes a request for op in this step.
Takes(t, op) == loc[t].pc = "idle" /\ loc'[t].op = op

\* C5: /classify-log with non-empty text answers 400 'No HuggingFace model loaded'
\* for 'huggingface' while that slot is empty, and 400 'Kaggle model not found' for
\* 'kaggle' with a model_name that has no entry; the call leaves the registry as
\* it was.
C5_ClassifyBeforeTraining ==
    [][\A t \in Threads :
        (Takes(t, "classify") /\ loc'[t].req.text # "") =>
            LET r == loc'[t].req
                resp == loc'[t].resp
                noHF == r.model_type = "huggingface" /\ regHF.model = None
                noKaggle == /\ r.model_type = "kaggle"
                            /\ (r.model_name \notin KaggleTypes \/ regKaggle[r.model_name] = None)
            IN  /\ noHF => /\ loc'[t].pc = "done"
                           /\ resp.status = 400
                           /\ resp.body.error = "No HuggingFace model loaded"
                /\ noKaggle => /\ loc'[t].pc = "done"
                               /\ resp.status = 400
                               /\ resp.body.error = "Kaggle model not found"
                /\ (noHF \/ noKaggle) => UNCHANGED registry]_vars

C5_Witness ==
    \E t \in Threads :
        /\ Done(t) /\ loc[t].op = "classify" /\ loc[t].req.text # ""
        /\ loc[t].req.model_type = "huggingface"
        /\ regHF.model = None
        /\ loc[t].resp.status = 400
        /\ loc[t].resp.body.error = "No HuggingFace model loaded"

EmptySlot == model = None \/ feature_max = None

IsPlaceholder(resp) ==
    resp.status = 200 /\ resp.tag = "placeholder" /\ resp.body.mean_score = 0

\* C6 as stated: for every record sequence, /predict with no artifact registered
\* answers the zero placeholder as a success and leaves the registry empty.
C6_PlaceholderForEverySequence ==
    [][\A t \in Threads :
        (Takes(t, "predict") /\ EmptySlot) =>
            /\ loc'[t].pc = "done"
            /\ IsPlaceholder(loc'[t].resp)
            /\ UNCHANGED registry]_vars

\* C6 as amended: for every non-empty sequence of records whose message is a
\* string, /predict with no artifact registered answers the zero placeholder as a
\* success and leaves the registry empty.
C6_PlaceholderForNonEmptySequence ==
    [][\A t \in Threads :
        (/\ Takes(t, "predict") /\ EmptySlot
         /\ Len(loc'[t].logs) > 0
         /\ \A i \in 1..Len(loc'[t].logs) : loc'[t].logs[i].message >= 0) =>
            /\ loc'[t].pc = "done"
            /\ IsPlaceholder(loc'[t].resp)
            /\ UNCHANGED registry]_vars

C6_Witness ==
    \E t \in Threads :
        /\ Done(t) /\ loc[t].op = "predict"
        /\ Len(loc[t].logs) > 0
        /\ model = None /\ feature_max = None
        /\ IsPlaceholder(loc[t].resp)

\* C7: with the transformers runtime present and the classifier artifact saved on
\* disk before the process started, a /classify-log ('huggingface', non-empty
\* text) issued before any classifier training is answered from that artifact.
C7_SavedClassifierServesClassify ==
    \A t \in Threads :
        (/\ Done(t) /\ loc[t].op = "classify" /\ loc[t].req.text # ""
         /\ loc[t].req.model_type = "huggingface"
         /\ HAS_TRANSFORMERS /\ diskHF = SavedDisk /\ lastTrained.hf = None)
            => /\ loc[t].resp.status = 200
               /\ loc[t].used.model = DiskId

\* C8: without TensorFlow, a numeric /train on a non-empty sequence of encodable
\* records succeeds and reports the isolation-forest backend.
C8_FallbackNeverFails ==
    \A t \in Threads :
        (/\ NumericTrain(t) /\ Done(t) /\ ~loc[t].tf
         /\ Len(loc[t].logs) > 0
         /\ \A i \in 1..Len(loc[t].logs) : loc[t].logs[i].message >= 0)
            => /\ loc[t].resp.status = 200
               /\ loc[t].resp.body.framework = "Scikit-learn (Isolation Forest)"

\* C9: a /predict that ran an isolation-forest model never answers with a success
\* labelled as the autoencoder's reconstruction error.
C9_NoMisScoringOfFallback ==
    \A t \in Threads :
        (Scored(t) /\ loc[t].used.backend = "iforest")
            => ~(loc[t].resp.status = 200 /\ loc[t].resp.body.model = "tf-autoencoder-v1")

\* C10: a numeric /train without records (logs absent, null or empty) is answered
\* 400 and leaves the globals model and feature_max as the call found them.
C10_EmptyLogsRejected ==
    \A t \in Threads :
        (NumericTrain(t) /\ Done(t) /\ Len(loc[t].logs) = 0)
            => /\ loc[t].resp.status = 400
               /\ <<model, feature_max>> = loc[t].pre

\* A /train call on the classifier path.
ClassifierTrain(t) == loc[t].op = "train" /\ loc[t].req.model_type = "huggingface"

\* C11: a classifier /train that does not succeed is answered 500 'Hugging Face
\* training failed', and nlp_model, nlp_tokenizer, model_registry['huggingface'],
\* the saved artifact and the keys of the dataset cache are as the call found
\* them.
C11_ClassifierFailureHasNoEffect ==
    \A t \in Threads :
        (ClassifierTrain(t) /\ Done(t) /\ loc[t].resp.status # 200)
            => /\ loc[t].resp.status = 500
               /\ loc[t].resp.body.error = "Hugging Face training failed"
               /\ <<nlp_model, nlp_tokenizer, regHF, diskHF, loghubCache>> = loc[t].pre

\* An /attribute call that has been answered; its record is a log record when
\* the message is a text or is missing.
Attributed(t) == loc[t].op = "attribute" /\ Done(t)
AttrRecord(t) == loc[t].logs[1]
IsLogRecord(log) == log.message.kind # "null"

Attributions(t) == loc[t].resp.body.feature_attributions

\* The attribution list is in order of non-increasing impact_percent.
Ranked(fa) == \A i \in 1..(Len(fa) - 1) : fa[i].impact_percent >= fa[i + 1].impact_percent

\* C12: for every log record, an /attribute call whose statistical block is
\* unavailable or raised is answered 200 with the result of the rule list, never
\* with an error.
C12_AttributeNeverFails ==
    \A t \in Threads :
        (Attributed(t) /\ IsLogRecord(AttrRecord(t)) /\ loc[t].arg # "statistical")
            => /\ loc[t].resp.status = 200
               /\ loc[t].resp.tag = "attributed"
               /\ loc[t].resp.body.method = "rule-based-fallback"
               /\ Len(Attributions(t)) >= 1

C12_Witness ==
    \E t \in Threads :
        /\ Attributed(t) /\ loc[t].arg = "rules"
        /\ AttrRecord(t).level = "INFO" /\ AttrRecord(t).message = Msg("text", <<"ok">>)
        /\ loc[t].resp.status = 200
        /\ loc[t].resp.body.primary_cause = <<"Unexpected Pattern">>

\* C13: every successful /attribute result has a non-empty attribution list in
\* order of non-increasing impact and a method tag, which is
\* 'shap-isolation-forest' exactly when the statistical block produced the result
\* and 'rule-based-fallback' exactly when the rule list did.
C13_RankedListAndMethodTag ==
    \A t \in Threads :
        (Attributed(t) /\ loc[t].resp.status = 200)
            => /\ Len(Attributions(t)) >= 1
               /\ Ranked(Attributions(t))
               /\ loc[t].resp.body.method \in {"shap-isolation-forest", "rule-based-fallback"}
               /\ (loc[t].resp.body.method = "shap-isolation-forest") <=> (loc[t].arg = "statistical")
               /\ (loc[t].resp.body.method = "rule-based-fallback") <=> (loc[t].arg = "rules")

\* The statistical path answered, and the sort moved a later feature to the front.
C13_Witness ==
    \E t \in Threads :
        /\ Attributed(t) /\ loc[t].resp.status = 200
        /\ loc[t].resp.body.method = "shap-isolation-forest"
        /\ loc[t].X[1] = <<0, 1, -2, 1, 0>>
        /\ Attributions(t)[1].feature = "Message Length"
        /\ Attributions(t)[1].impact_percent > Attributions(t)[2].impact_percent

\* C17: under the rule list, /attribute on a record with level FATAL and a message
\* containing 'timeout' names the level or the error keywords as primary cause,
\* with confidence above 0.5.
C17_FatalTimeoutConfidence ==
    \A t \in Threads :
        (/\ Attributed(t) /\ loc[t].arg = "rules"
         /\ AttrRecord(t).level = "FATAL"
         /\ AttrRecord(t).message.kind = "text"
         /\ HasKeyword(AttrRecord(t).message.words, {"timeout"}))
            => /\ loc[t].resp.status = 200
               /\ loc[t].resp.body.primary_cause[1] \in {"Log Level", "Error Keywords"}
               /\ loc[t].resp.body.confidence > 50

\* C19: on the statistical path the impact_percent values (in tenths of a
\* percent, each rounded to one tenth) sum to 100 percent within the rounding of
\* five values, also when all SHAP values are zero; the list is in order of
\* non-increasing impact and its first entry is the primary cause.
C19_ImpactsSumTo100 ==
    \A t \in Threads :
        (Attributed(t) /\ loc[t].arg = "statistical" /\ loc[t].resp.status = 200)
            => LET fa == Attributions(t)
                   sum == SumTo([i \in 1..Len(fa) |-> fa[i].impact_percent], Len(fa))
               IN  /\ Abs(sum - 1000) <= 2
                   /\ Ranked(fa)
                   /\ loc[t].resp.body.primary_cause[1] = fa[1].feature

\* C19 as amended: on the statistical path the impact_percent values sum to 100
\* percent within the rounding of five values whenever some SHAP value is not
\* zero, and are all 0 when every SHAP value is zero; in both cases the list is
\* in order of non-increasing impact and its first entry is the primary cause.
C19_ImpactsSumTo100UnlessAllZero ==
    \A t \in Threads :
        (Attributed(t) /\ loc[t].arg = "statistical" /\ loc[t].resp.status = 200)
            => LET fa == Attributions(t)
                   sum == SumTo([i \in 1..Len(fa) |-> fa[i].impact_percent], Len(fa))
                   allZero == \A i \in 1..5 : loc[t].X[1][i] = 0
               IN  /\ ~allZero => Abs(sum - 1000) <= 2
                   /\ allZero => \A i \in 1..Len(fa) : fa[i].impact_percent = 0
                   /\ Len(fa) = 5
                   /\ Ranked(fa)
                   /\ loc[t].resp.body.primary_cause[1] = fa[1].feature

\* Three equal shares of 33.3 percent: the sum is 99.9.
C19_Witness ==
    \E t \in Threads :
        /\ Attributed(t) /\ loc[t].arg = "statistical" /\ loc[t].resp.status = 200
        /\ loc[t].X[1] = <<1, 0, 1, 1, 0>>
        /\ SumTo([i \in 1..5 |-> Attributions(t)[i].impact_percent], 5) = 999

\* Thread t takes a step of a request for op (every step moves the thread on).
StepOf(t, op) == loc'[t].pc # loc[t].pc /\ (loc[t].op = op \/ loc'[t].op = op)

C15_SlotsNeverCleared ==
    [][/\ (model # None => model' # None)
       /\ (feature_max # None => feature_max' # None)
       /\ (regHF # NoEntry => regHF' # NoEntry /\ regHF'.model # None /\ regHF'.tokenizer # None)
       /\ \A k \in KaggleTypes : regKaggle[k] # None => regKaggle'[k] # None]_vars

\* A second tabular subtype has been trained while the first is still entered.
C15_Witness ==
    \E t \in Threads :
        /\ Done(t) /\ loc[t].op = "train_dataset" /\ loc[t].resp.status = 200
        /\ regKaggle[loc[t].arg] = loc[t].run
        /\ \E k \in KaggleTypes : k # loc[t].arg /\ regKaggle[k] # None

\* The subtype, and the path, of the request thread t is stepping.
KaggleSubtype(t) == IF loc[t].op = "train_dataset" THEN loc[t].arg ELSE loc'[t].arg
TrainPath(t) == IF loc[t].op = "train" THEN loc[t].req.model_type ELSE loc'[t].req.model_type

\* C16: a step of /train-dataset for a subtype leaves the other tabular entries,
\* the classifier entry and the reconstruction slot as they are; a step of a
\* numeric /train leaves the classifier and the tabular entries as they are; a
\* step of a classifier /train leaves the reconstruction slot and the tabular
\* entries as they are.
C16_SlotsIndependent ==
    [][\A t \in Threads :
        /\ StepOf(t, "train_dataset") =>
                /\ UNCHANGED <<model, feature_max, mdlObj, fmObj, regHF, nlp_model, nlp_tokenizer>>
                /\ \A k \in KaggleTypes : k # KaggleSubtype(t) => regKaggle'[k] = regKaggle[k]
        /\ (StepOf(t, "train") /\ TrainPath(t) # "huggingface") =>
                UNCHANGED <<regHF, nlp_model, nlp_tokenizer, regKaggle>>
        /\ (StepOf(t, "train") /\ TrainPath(t) = "huggingface") =>
                UNCHANGED <<model, feature_max, mdlObj, fmObj, regKaggle>>]_vars

\* A classifier was trained after a numeric model and both are registered.
C16_Witness ==
    \E t \in Threads :
        /\ Done(t) /\ ClassifierTrain(t) /\ loc[t].resp.status = 200
        /\ regHF.model = loc[t].run
        /\ model # None /\ feature_max # None /\ model # loc[t].run
        /\ mdlObj[model].fitted

\* C18: the fit-quality label of a successful numeric /train is 'Overfitting' if
\* val_loss > 1.5 * train_loss, otherwise 'Underfitting' if train_loss is above
\* 0.1 (TensorFlow) or 0.5 (isolation forest), otherwise 'Balanced'; losses are
\* in hundredths.
C18_FitQualityThresholds ==
    \A t \in Threads :
        (NumericTrain(t) /\ Done(t) /\ loc[t].resp.status = 200)
            => LET b == loc[t].resp.body
                   limit == IF b.framework = "TensorFlow" THEN 10 ELSE 50
               IN  /\ b.framework \in {"TensorFlow", "Scikit-learn (Isolation Forest)"}
                   /\ (2 * b.val_loss > 3 * b.train_loss) => b.analysis = "Overfitting"
                   /\ (2 * b.val_loss <= 3 * b.train_loss /\ b.train_loss > limit)
                        => b.analysis = "Underfitting"
                   /\ (2 * b.val_loss <= 3 * b.train_loss /\ b.train_loss <= limit)
                        => b.analysis = "Balanced"

\* train_loss 0.2 and val_loss 0.35 on the reconstruction backend.
C18_Witness ==
    \E t \in Threads :
        /\ NumericTrain(t) /\ Done(t) /\ loc[t].resp.status = 200
        /\ loc[t].resp.body.framework = "TensorFlow"
        /\ loc[t].resp.body.train_loss = 20 /\ loc[t].resp.body.val_loss = 35
        /\ loc[t].resp.body.analysis = "Overfitting"

\* The encoding the claim gives: the level ordinal (a missing or unknown level
\* counts as INFO), the source ordinal (a missing or unknown source gives 0).
LevelOrdinal(l) ==
    IF l = "DEBUG" THEN 0 ELSE IF l = "WARN" THEN 2 ELSE IF l = "ERROR" THEN 3
    ELSE IF l = "FATAL" THEN 4 ELSE 1
SourceOrdinal(s) ==
    IF s = "user-service" THEN 1 ELSE IF s = "db-replicator" THEN 2
    ELSE IF s = "frontend-logger" THEN 3 ELSE IF s = "auth-service" THEN 4 ELSE 0

\* Every message of the sequence is a text.
AllRecords(logs) == \A i \in 1..Len(logs) : logs[i].message >= 0

\* C20: for every sequence of log records the encoder does not fail, and it
\* gives one vector per record, in the order of the records, each vector being
\* the record's level ordinal, source ordinal and message length.
C20_EncoderTotalOrderPreserving ==
    \A t \in Threads :
        (NumericTrain(t) /\ Len(loc[t].logs) > 0 /\ AllRecords(loc[t].logs))
            => /\ ~(Done(t) /\ loc[t].resp.tag = "error" /\ loc[t].resp.body.at = "prepare")
               /\ loc[t].pc = "t795" =>
                    /\ Len(loc[t].X) = Len(loc[t].logs)
                    /\ \A i \in 1..Len(loc[t].logs) :
                            loc[t].X[i] = <<LevelOrdinal(loc[t].logs[i].level),
                                            SourceOrdinal(loc[t].logs[i].source),
                                            loc[t].logs[i].message>>

C20_Witness ==
    \E t \in Threads :
        /\ NumericTrain(t) /\ loc[t].pc = "t795"
        /\ loc[t].logs = <<RecUnknown, RecError>>
        /\ loc[t].X = <<(<<1, 0, 4>>), (<<3, 2, 4>>)>>

\* The scaled vectors of a numeric /train, in record order, once it has split them.
SplitVectors(t) == loc[t].X_train \o loc[t].X_val
HasSplit(t) == NumericTrain(t) /\ Len(SplitVectors(t)) > 0

\* The profile the claim gives for encoded records X: the largest value of each
\* column, 1 where that is zero.
ColumnMaximum(X, j) == Max({X[i][j] : i \in 1..Len(X)})
ExpectedProfile(X) ==
    [j \in 1..3 |-> IF ColumnMaximum(X, j) = 0 THEN 1 ELSE ColumnMaximum(X, j)]

\* C21: the profile fit by a numeric /train is the per-column maximum of its
\* encoded records with every zero replaced by 1, and it is what the records were
\* divided by: every entry is at least 1 and at least the largest magnitude of its
\* column, and every normalized training value lies in [0, 1].
C21_ProfileBoundsTrainingValues ==
    \A t \in Threads :
        HasSplit(t) =>
            LET X == loc[t].X
                S == SplitVectors(t)
            IN  \A i \in 1..Len(X) : \A j \in 1..3 :
                    /\ S[i][j][1] = X[i][j]
                    /\ S[i][j][2] = ExpectedProfile(X)[j]
                    /\ S[i][j][2] >= 1
                    /\ S[i][j][2] >= Abs(X[i][j])
                    /\ 0 <= S[i][j][1] /\ S[i][j][1] <= S[i][j][2]

\* floor(0.8 * n)
FloorFourFifths(n) == (4 * n) \div 5

\* C22: a numeric /train splits its n normalized vectors in record order: the
\* training split is the first floor(0.8 * n) of them and the validation split
\* the rest, so that the two together are the whole input in order, and the
\* training split is not empty.
C22_SplitInOrderTrainNonEmpty ==
    \A t \in Threads :
        HasSplit(t) =>
            LET n == Len(loc[t].X)
                k == FloorFourFifths(n)
            IN  /\ Len(loc[t].X_train) = k
                /\ Len(loc[t].X_val) = n - k
                /\ \A i \in 1..k : \A j \in 1..3 : loc[t].X_train[i][j][1] = loc[t].X[i][j]
                /\ \A i \in 1..(n - k) : \A j \in 1..3 :
                        loc[t].X_val[i][j][1] = loc[t].X[k + i][j]
                /\ Len(loc[t].X_train) >= 1

\* A numeric /train that has been answered with its metrics.
Trained(t) == NumericTrain(t) /\ Done(t) /\ loc[t].resp.status = 200

\* C23 as stated: a numeric /train on fewer than 5 records has an empty validation
\* split and reports the train_loss as val_loss; whenever the validation split is
\* empty val_loss equals train_loss and the label is not 'Overfitting'.
C23_SmallInputReusesTrainLoss ==
    \A t \in Threads :
        /\ (HasSplit(t) /\ Len(loc[t].logs) < 5) => Len(loc[t].X_val) = 0
        /\ (Trained(t) /\ Len(loc[t].logs) < 5) =>
                loc[t].resp.body.val_loss = loc[t].resp.body.train_loss
        /\ (Trained(t) /\ Len(loc[t].X_val) = 0) =>
                /\ loc[t].resp.body.val_loss = loc[t].resp.body.train_loss
                /\ loc[t].resp.body.analysis # "Overfitting"

\* C23 as amended: a numeric /train on n >= 1 records has a validation split of
\* n - floor(0.8 * n) >= 1 records, also for fewer than 5 records, so no answered
\* training has an empty validation split; and whenever the reported val_loss
\* equals the train_loss the label is not 'Overfitting'.
C23_ValidationSplitNeverEmpty ==
    \A t \in Threads :
        /\ HasSplit(t) =>
                /\ Len(loc[t].X_val) = Len(loc[t].X) - FloorFourFifths(Len(loc[t].X))
                /\ Len(loc[t].X_val) >= 1
        /\ Trained(t) =>
                /\ Len(loc[t].X_val) >= 1
                /\ (loc[t].resp.body.val_loss = loc[t].resp.body.train_loss)
                        => loc[t].resp.body.analysis # "Overfitting"

\* Two records on the fallback backend: one is held out, its loss is 0.35 against
\* a train_loss of 0.2, and the label is 'Overfitting'.
C23_Witness ==
    \E t \in Threads :
        /\ Trained(t) /\ Len(loc[t].logs) = 2
        /\ Len(loc[t].X_train) = 1 /\ Len(loc[t].X_val) = 1
        /\ loc[t].resp.body.framework = "Scikit-learn (Isolation Forest)"
        /\ loc[t].resp.body.train_loss = 20 /\ loc[t].resp.body.val_loss = 35
        /\ loc[t].resp.body.analysis = "Overfitting"

\* The error the model object a /predict call ran gives record i of the request.
ScoreOfRecord(t, i) ==
    mdlObj[loc[t].used.model].w[level_map(loc[t].logs[i].level) >= 3]

\* A /predict call that ran the artifact of the latest successful numeric
\* training: its model, fit, and its profile.
ScoredRegistered(t) ==
    /\ Scored(t)
    /\ loc[t].used.fitted
    /\ loc[t].used.model = lastTrained.num
    /\ loc[t].used.fm = lastTrained.num

\* C24: a /predict that ran the registered artifact is answered with one score per
\* record, in the order of the records; mean_score is the mean of the scores,
\* high_risk_count the number of scores strictly above 0.1, total_processed the
\* number of records, and 0 <= high_risk_count <= total_processed.
C24_PredictResultArithmetic ==
    \A t \in Threads :
        ScoredRegistered(t) =>
            LET n == Len(loc[t].logs)
                b == loc[t].resp.body
            IN  /\ loc[t].resp.status = 200
                /\ Len(b.individual_scores) = n
                /\ \A i \in 1..n : b.individual_scores[i] = ScoreOfRecord(t, i)
                /\ b.mean_sum = SumTo(b.individual_scores, n)
                /\ b.mean_n = n
                /\ b.high_risk_count = Cardinality({i \in 1..n : b.individual_scores[i] > 10})
                /\ b.total_processed = n
                /\ 0 <= b.high_risk_count /\ b.high_risk_count <= b.total_processed

\* The rule list as the claim gives it: names and weights (in hundredths) in the
\* fixed order, and which of the rules a record fires.
RuleNames == <<"Log Level", "Error Keywords", "Message Length", "Database Reference">>
RuleWeights == <<40, 30, 20, 10>>
RuleFires(log) ==
    <<log.level \in {"ERROR", "FATAL"},
      HasKeyword(GetMessage(log), error_keywords),
      TextLen(GetMessage(log)) > 100,
      HasKeyword(GetMessage(log), db_keywords)>>
Fired(log) == {r \in 1..4 : RuleFires(log)[r]}

\* The i-th rule, in the fixed order, among those the record fires.
RuleAt(log, i) == CHOOSE r \in Fired(log) : Cardinality({q \in Fired(log) : q < r}) = i - 1

\* C25: the rule list of /attribute returns exactly the rules that fire, in the
\* order severe level (0.4), error keywords (0.3), message longer than 100
\* characters (0.2), database keywords (0.1); the primary cause and the confidence
\* are those of the first rule that fires; when none fires the result is the one
\* cause 'Unexpected Pattern' with weight 0.5.
C25_RulesInFixedOrder ==
    \A t \in Threads :
        (Attributed(t) /\ loc[t].arg = "rules" /\ IsLogRecord(AttrRecord(t))) =>
            LET log == AttrRecord(t)
                b == loc[t].resp.body
                fa == Attributions(t)
            IN  /\ loc[t].resp.status = 200
                /\ IF Fired(log) = {}
                   THEN /\ Len(fa) = 1
                        /\ fa[1].feature = "Unexpected Pattern"
                        /\ fa[1].impact_percent = 500
                        /\ b.primary_cause = <<"Unexpected Pattern">>
                        /\ b.confidence = 50
                   ELSE /\ Len(fa) = Cardinality(Fired(log))
                        /\ \A i \in 1..Len(fa) :
                                /\ fa[i].feature = RuleNames[RuleAt(log, i)]
                                /\ fa[i].impact_percent = 10 * RuleWeights[RuleAt(log, i)]
                        /\ b.primary_cause = <<RuleNames[RuleAt(log, 1)]>>
                        /\ b.confidence = RuleWeights[RuleAt(log, 1)]

\* An ERROR record whose long message has an error keyword and a database
\* keyword fires all four rules.
C25_Witness ==
    \E t \in Threads :
        /\ Attributed(t) /\ loc[t].arg = "rules"
        /\ AttrRecord(t).level = "ERROR"
        /\ AttrRecord(t).message = Msg("text", <<"x120", "Timeout", "db">>)
        /\ Len(Attributions(t)) = 4
        /\ Attributions(t)[2].feature = "Error Keywords"
        /\ Attributions(t)[4].impact_percent = 100
        /\ loc[t].resp.body.primary_cause = <<"Log Level">>
        /\ loc[t].resp.body.confidence = 40

\* Some classifier /train has started and its handler has not returned.
ClassifierTrainInProgress ==
    \E t \in Threads : ClassifierTrain(t) /\ loc[t].pc \notin {"idle", "done"}

\* C26: whenever model_registry['huggingface'] is populated and no classifier
\* training is in progress, nlp_model and nlp_tokenizer are the model and the
\* tokenizer of that entry, so /predict_hf and /classify-log run the same pair.
C26_ClassifierStoresConsistent ==
    (regHF # NoEntry /\ ~ClassifierTrainInProgress) =>
        /\ nlp_model = regHF.model
        /\ nlp_tokenizer = regHF.tokenizer

====
